---- MODULE Spec2Model ----
(***************************************************************************)
(* Orchestration core of meta_expert: the shared State, the agent          *)
(* contract (register / read_instructions / write_to_state / invoke), the  *)
(* dispatch graph and routing function of build_workflow, the background   *)
(* workflow thread and its progress queue, and the search fan-out.         *)
(***************************************************************************)
EXTENDS Integers, Sequences, FiniteSets, TLC

(***************************************************************************)
(* Bounds of the model (not program constants).                            *)
(***************************************************************************)
\* node executions explored per run under the free planner
MaxSteps == 4
\* operations applied in a row to an arbitrary State, outside a run
MaxUnitOps == 2
\* queries in one search batch
MaxQueries == 3
\* units in one batch when the pool is the subject
MaxBatch == 6
MaxTeam == 3
MaxUrls == 2
MaxBuilds == 3

(***************************************************************************)
(* Program constants.                                                      *)
(***************************************************************************)
\* configs = {"recursion_limit": 50, ...}
RecursionLimit == 50
\* ThreadPoolExecutor(max_workers=5)
max_workers == 5
\* @retry(stop=stop_after_attempt(3), wait=wait_fixed(1), ...)
stop_after_attempt == 3
wait_fixed == 1

(***************************************************************************)
(* Names.                                                                  *)
(***************************************************************************)
PLANNER == "meta_agent"
REPORTER == "reporter_agent"
AgentNames == {"meta_agent", "serper_agent", "web_scraper_agent", "reporter_agent"}
ToolAgents == {"serper_agent", "web_scraper_agent"}
END == "__end__"

\* node_name = f"{agent.name}_node"
NodeName(a) == a \o "_node"

Last(s) == s[Len(s)]

IsPrefix(s, t) == /\ Len(s) <= Len(t)
                  /\ \A i \in 1..Len(s) : s[i] = t[i]

(***************************************************************************)
(* Text held in a Result.  A text is a record that says what json.loads    *)
(* makes of it:                                                            *)
(*   kind "text"   : not JSON (json.loads raises JSONDecodeError);         *)
(*   kind "array"  : JSON, but not an object (no .get method);             *)
(*   kind "object" : a JSON object; agentTag/agentVal is its "Agent"       *)
(*                   member, s4/draft its "step_4" member.                 *)
(* agentTag: "absent" (no such key), "str" (a string, agentVal),           *)
(*           "num" (a number: hashable), "list" (an array: unhashable).    *)
(* s4: "absent", "nonobject" (step_4 is not an object), "nodraft" (an      *)
(*     object without final_draft), "draft" (final_draft is the string     *)
(*     draft).                                                             *)
(***************************************************************************)
Drafts == {"", "d1", "d2"}

PlainText(s) ==
    [kind |-> "text", text |-> s, agentTag |-> "absent", agentVal |-> "",
     s4 |-> "absent", draft |-> ""]

JsonArray ==
    [kind |-> "array", text |-> "", agentTag |-> "absent", agentVal |-> "",
     s4 |-> "absent", draft |-> ""]

JsonObject(atag, aval, s4, d) ==
    [kind |-> "object", text |-> "", agentTag |-> atag, agentVal |-> aval,
     s4 |-> s4, draft |-> d]

\* {"error": "..."}: what a provider returns when the call failed
ErrorEnvelope == JsonObject("absent", "", "absent", "")

AgentMembers ==
    {<<"absent", "">>, <<"num", "">>, <<"list", "">>}
      \cup {<<"str", n>> : n \in AgentNames \cup {"unknown_agent"}}

Step4Members ==
    {<<"absent", "">>, <<"nonobject", "">>, <<"nodraft", "">>}
      \cup {<<"draft", d>> : d \in Drafts}

\* every text the planner's provider call can return
PlannerOutputs ==
    {PlainText("not json"), JsonArray}
      \cup {JsonObject(a[1], a[2], s[1], s[2]) :
                a \in AgentMembers, s \in Step4Members}

\* a Decision Artifact with all required members of the right type
WellFormed(c) ==
    /\ c.kind = "object"
    /\ c.agentTag = "str"
    /\ c.s4 = "draft"

\* Document(page_content=response, metadata={"agent": self.name})
Document(c, a) == [page_content |-> c, agent |-> a]


(***************************************************************************)
(* Agent contract: BaseAgent.                                              *)
(***************************************************************************)
\* write_to_state with the list rebuilt on every write (the reset of the
\* defensive branch taken unconditionally)
write_to_state_resets(st, self, response) ==
    [k \in DOMAIN st \cup {self} |->
        IF k = self THEN <<Document(response, self)>> ELSE st[k]]

\* write_to_state filing the Document under the planner's key
write_to_state_misfiled(st, self, response) ==
    LET old == IF PLANNER \in DOMAIN st THEN st[PLANNER] ELSE <<>>
    IN  [k \in DOMAIN st \cup {PLANNER} |->
            IF k = PLANNER THEN Append(old, Document(response, self))
                           ELSE st[k]]

\* BaseAgent.write_to_state: append one Document under self.name; a missing
\* key is initialised to the empty list first.
write_to_state(st, self, response) ==
    LET old == IF self \in DOMAIN st THEN st[self] ELSE <<>>
    IN  [k \in DOMAIN st \cup {self} |->
            IF k = self THEN Append(old, Document(response, self)) ELSE st[k]]

\* read_instructions taking the first planner Result instead of the last
read_instructions_first(st) ==
    IF PLANNER \notin DOMAIN st THEN ""
    ELSE IF st[PLANNER] = <<>> THEN ""
    ELSE LET c == st[PLANNER][1].page_content
         IN  IF c.kind # "object" THEN ""
             ELSE IF c.s4 = "draft" THEN c.draft
             ELSE ""

\* BaseAgent.read_instructions: step_4.final_draft of the last planner
\* Result; "" when anything on the way raises (IndexError on a missing or
\* empty planner list, JSONDecodeError, AttributeError on a non-object).
read_instructions(st) ==
    IF PLANNER \notin DOMAIN st THEN ""
    ELSE IF st[PLANNER] = <<>> THEN ""
    ELSE LET c == Last(st[PLANNER]).page_content
         IN  IF c.kind # "object" THEN ""
             ELSE IF c.s4 = "draft" THEN c.draft
             ELSE ""

\* What one invoke did: the State after it, what it returned ("state": the
\* State dict, "empty": {}, "raise": an exception left invoke), and whether
\* the Capability Provider was called and execute_tool was entered.
Outcome(st, ret, exc, llm, tool) ==
    [state |-> st, ret |-> ret, exc |-> exc, llm |-> llm, tool |-> tool]

\* What the provider returns to a tool-calling agent's call_tool:
\*   "params"       a JSON object holding a non-empty work-unit list
\*   "no_units"     a JSON object without a work-unit list (an error envelope)
\*   "non_object"   JSON that is not an object
\*   "not_json"     text that json.loads rejects
\*   "raise"        the provider call itself raised
ToolLlmOutputs == {"params", "no_units", "non_object", "not_json", "raise"}

\* Texts execute_tool returns
ToolTexts == {"r1", "r2"}

\* ToolCallingAgent.invoke asking the provider before it looks at the
\* instructions
ToolCallingAgent_invoke_eager(st, self, llmOut, toolText) ==
    IF read_instructions(st) = ""
      THEN Outcome(st, "empty", "none", TRUE, FALSE)
    ELSE IF llmOut # "params"
      THEN Outcome(st, "raise", "ValueError", TRUE, FALSE)
    ELSE Outcome(write_to_state(st, self, PlainText(toolText)),
                 "state", "none", TRUE, TRUE)

\* ToolCallingAgent.invoke writing its result twice
ToolCallingAgent_invoke_twice(st, self, llmOut, toolText) ==
    IF read_instructions(st) = ""
      THEN Outcome(st, "empty", "none", FALSE, FALSE)
    ELSE IF llmOut # "params"
      THEN Outcome(st, "raise", "ValueError", TRUE, FALSE)
    ELSE Outcome(write_to_state(
                     write_to_state(st, self, PlainText(toolText)),
                     self, PlainText(toolText)),
                 "state", "none", TRUE, TRUE)

\* ToolCallingAgent.invoke going on with an empty parameter object when the
\* provider's text does not parse
ToolCallingAgent_invoke_lenient(st, self, llmOut, toolText) ==
    IF read_instructions(st) = ""
      THEN Outcome(st, "empty", "none", FALSE, FALSE)
    ELSE IF llmOut = "raise"
      THEN Outcome(st, "raise", "ProviderError", TRUE, FALSE)
    ELSE IF llmOut = "non_object"
      THEN Outcome(st, "raise", "AttributeError", TRUE, TRUE)
    ELSE IF llmOut \in {"no_units", "not_json"}
      THEN Outcome(st, "raise", "ValueError", TRUE, TRUE)
    ELSE Outcome(write_to_state(st, self, PlainText(toolText)),
                 "state", "none", TRUE, TRUE)

\* ToolCallingAgent.invoke
ToolCallingAgent_invoke(st, self, llmOut, toolText) ==
    LET instructions == read_instructions(st)
    IN  IF instructions = ""
          THEN Outcome(st, "empty", "none", FALSE, FALSE)
        ELSE IF llmOut = "raise"
          THEN Outcome(st, "raise", "ProviderError", TRUE, FALSE)
        ELSE IF llmOut = "not_json"
          THEN Outcome(st, "raise", "ValueError", TRUE, FALSE)
        ELSE IF llmOut = "non_object"
          THEN Outcome(st, "raise", "AttributeError", TRUE, TRUE)
        ELSE IF llmOut = "no_units"
          THEN Outcome(st, "raise", "ValueError", TRUE, TRUE)
        ELSE Outcome(write_to_state(st, self, PlainText(toolText)),
                     "state", "none", TRUE, TRUE)

\* the workpad built from every key of State, the planner's included
respond_workpad_all(st) ==
    [empty |-> (DOMAIN st = {}), entries |-> st]

\* MetaAgent.respond: the workpad is "No previous state." for an empty
\* State, else one "key: value" line for every key but "meta_agent"
respond_workpad(st) ==
    [empty |-> (DOMAIN st = {}),
     entries |-> [k \in DOMAIN st \ {"meta_agent"} |-> st[k]]]

\* MetaAgent.invoke: the provider's response is written as it is.
MetaAgent_invoke(st, self, response, providerRaises) ==
    IF providerRaises
      THEN Outcome(st, "raise", "ProviderError", TRUE, FALSE)
      ELSE Outcome(write_to_state(st, self, response),
                   "state", "none", TRUE, FALSE)

\* ReporterAgent.invoke passing the draft through the provider
ReporterAgent_invoke_rewrites(st, self) ==
    LET instruction == read_instructions(st)
    IN  IF instruction = ""
          THEN Outcome(st, "empty", "none", FALSE, FALSE)
          ELSE Outcome(write_to_state(st, self, PlainText("d1")),
                       "state", "none", TRUE, FALSE)

\* ReporterAgent.invoke
ReporterAgent_invoke(st, self) ==
    LET instruction == read_instructions(st)
    IN  IF instruction = ""
          THEN Outcome(st, "empty", "none", FALSE, FALSE)
          ELSE Outcome(write_to_state(st, self, PlainText(instruction)),
                       "state", "none", FALSE, FALSE)

(***************************************************************************)
(* build_workflow: roster check, registration, dispatch graph.             *)
(***************************************************************************)
\* the roster check with "and" in place of "or"
RosterOk_either(team) == PLANNER \in team \/ REPORTER \in team

\* if "meta_agent" not in agent_names or "reporter_agent" not in agent_names
RosterOk(team) == PLANNER \in team /\ REPORTER \in team

\* a register loop that skips the planner
RegisteredState_workers_only(team) == [a \in team \ {PLANNER} |-> <<>>]

\* BaseAgent.register, applied to every agent of the team: state[name] = []
RegisteredState(team) == [a \in team |-> <<>>]

\* BaseAgent.register: every agent but the planner enters the AgentRegistry
RegisteredNames(reg, team) == reg \cup (team \ {PLANNER})

\* agent_nodes[agent.name] = node_name
agent_nodes(team) == [a \in team |-> NodeName(a)]

Returned(n) == [ret |-> n, exc |-> "none"]
Raised(e) == [ret |-> "none", exc |-> e]
NotRouted == [ret |-> "none", exc |-> "none"]

\* routing_function looking the agent up by its node name
routing_function_by_node(st, nodes) ==
    IF PLANNER \notin DOMAIN st THEN Returned(END)
    ELSE IF st[PLANNER] = <<>> THEN Returned(END)
    ELSE LET c == Last(st[PLANNER]).page_content
         IN  IF c.kind = "text" THEN Returned(END)
             ELSE IF c.kind = "array" THEN Raised("AttributeError")
             ELSE IF c.agentTag = "list" THEN Raised("TypeError")
             ELSE IF c.agentTag = "str" /\ NodeName(c.agentVal) \in DOMAIN nodes
                    THEN Returned(nodes[NodeName(c.agentVal)])
             ELSE Returned(END)

\* routing_function sending an Agent value it does not know to the reporter
routing_function_default_reporter(st, nodes) ==
    IF PLANNER \notin DOMAIN st THEN Returned(END)
    ELSE IF st[PLANNER] = <<>> THEN Returned(END)
    ELSE LET c == Last(st[PLANNER]).page_content
         IN  IF c.kind = "text" THEN Returned(END)
             ELSE IF c.kind = "array" THEN Raised("AttributeError")
             ELSE IF c.agentTag = "list" THEN Raised("TypeError")
             ELSE IF c.agentTag = "str" /\ c.agentVal \in DOMAIN nodes
                    THEN Returned(nodes[c.agentVal])
             ELSE IF REPORTER \in DOMAIN nodes
                    THEN Returned(nodes[REPORTER])
             ELSE Returned(END)

\* routing_function
routing_function(st, nodes) ==
    IF PLANNER \notin DOMAIN st THEN Returned(END)
    ELSE IF st[PLANNER] = <<>> THEN Returned(END)
    ELSE LET c == Last(st[PLANNER]).page_content
         IN  IF c.kind = "text" THEN Returned(END)
             ELSE IF c.kind = "array" THEN Raised("AttributeError")
             ELSE IF c.agentTag = "list" THEN Raised("TypeError")
             ELSE IF c.agentTag = "str" /\ c.agentVal \in DOMAIN nodes
                    THEN Returned(nodes[c.agentVal])
             ELSE Returned(END)

\* the fixed edges with the reporter's node wired like a worker's
FixedSuccessor_reporter_loops(a) == NodeName(PLANNER)

\* the fixed edges: every worker back to the planner, the reporter to END
FixedSuccessor(a) == IF a = REPORTER THEN END ELSE NodeName(PLANNER)


(***************************************************************************)
(* The program's state.                                                    *)
(***************************************************************************)
VARIABLES
    roster,          \* agent_team given to build_workflow (agent names)
    built,           \* "none" | "ok" | "ValueError": how build_workflow ended
    AgentRegistry,   \* keys of the process-wide AgentRegistry
    state,           \* the shared State: agent name -> sequence of Documents
    node,            \* the node the graph runs next ("none" before a build)
    step,            \* node executions of this run so far
    pc,              \* the workflow thread: "idle" | "stream" | "body" | "done"
                     \*   ("unit" / "fanout" in the harness specifications)
    exc,             \* the exception that ended the for-loop over the stream
    lastNode,        \* the agent whose node ran last
    lastRet,         \* what its invoke returned: "state" | "empty" | "raise"
    llmCalled,       \* that invoke called the Capability Provider
    toolRan,         \* that invoke entered execute_tool
    progress_queue,  \* asyncio.Queue between the thread and the host
    seen_progress_messages,
    hostpc,          \* run_workflow: "idle" | "waiting" | "final" |
                     \*   "returned" | "raised"
    message,         \* the message run_workflow returns
    ops,             \* operations applied so far outside a run
    routed,          \* what routing_function gave after the last planner turn
    queries,         \* execute_tool: the batch of search queries
    outcomes,        \* what serper_search does for each unit of the batch
    fut,             \* the future of each unit: "queued" | "running" | "done"
    yielded,         \* the futures as_completed has handed out
    search_results_list,
    combined_results, \* what execute_tool returned
    worker,          \* the agent whose execute_tool runs the batch
    scrape_results,  \* WebScraperAgent: the dict url -> result, as its items
    scrape_results_str, \* what WebScraperAgent.execute_tool returned
    json_response,   \* the model's json_response flag
    http,            \* what each request attempt of the call meets
    attempt_number,  \* request attempts of _make_request so far
    waited,          \* seconds slept between attempts
    invoke_pc,       \* the provider's invoke: "idle" | "request" | "wait" |
                     \*   "respond" | "returned" | "raised"
    invoke_result,   \* what invoke gave its caller
    active,          \* graph engine: nodes of this superstep not yet started
    running,         \* agents whose invoke is in progress
    triggered,       \* nodes the finished nodes' edges have triggered
    workpad,         \* the workpad of the planner's last provider call
    agent_team,      \* build_workflow: the list of agents it was given
    graph_nodes,     \* the nodes added to the StateGraph so far
    build_at,        \* how many agents of the list have had their node added
    event,           \* the message event after the run: "none" |
                     \*   "handled" | the exception it raised
    urls,            \* run_rag: the list of URLs
    query,           \* run_rag: the list of queries
    chunks_list,     \* run_rag: the results of the futures, as completed
    corpus           \* run_rag: the flattened chunks_list

buildVars == <<roster, built, AgentRegistry>>
runVars == <<node, step, pc, exc>>
turnVars == <<lastNode, lastRet, llmCalled, toolRan>>
hostVars == <<progress_queue, seen_progress_messages, hostpc, message>>
ragVars == <<urls, query, chunks_list, corpus>>
fanVars == <<queries, outcomes, fut, yielded, search_results_list,
             combined_results, worker, scrape_results, scrape_results_str,
             ragVars>>
provVars == <<json_response, http, attempt_number, waited, invoke_pc,
              invoke_result>>
stepVars == <<active, running, triggered>>
sessionVars == <<agent_team, graph_nodes, build_at, event>>
vars == <<roster, built, AgentRegistry, state, node, step, pc, exc,
          lastNode, lastRet, llmCalled, toolRan,
          progress_queue, seen_progress_messages, hostpc, message, ops,
          routed, queries, outcomes, fut, yielded, search_results_list,
          combined_results, json_response, http, attempt_number, waited,
          invoke_pc, invoke_result, active, running, triggered,
          worker, scrape_results, scrape_results_str, workpad,
          agent_team, graph_nodes, build_at, event,
          urls, query, chunks_list, corpus>>

\* the empty dict
EmptyState == [a \in {} |-> <<>>]

\* progress_queue items: a task_tracking_message, or None
Task(agent, msg) == [kind |-> "task", agent |-> agent, msg |-> msg]
Sentinel == [kind |-> "None", agent |-> <<"absent", "">>, msg |-> ""]

\* no provider call of the planner yet
NoWorkpad == [empty |-> TRUE, entries |-> EmptyState]

Quiet ==
    /\ roster = {} /\ built = "none" /\ AgentRegistry = {}
    /\ node = "none" /\ step = 0 /\ exc = "none"
    /\ lastNode = "none" /\ lastRet = "none"
    /\ llmCalled = FALSE /\ toolRan = FALSE
    /\ progress_queue = <<>> /\ seen_progress_messages = {}
    /\ hostpc = "idle" /\ message = ""
    /\ ops = 0
    /\ routed = NotRouted
    /\ workpad = NoWorkpad
    /\ agent_team = <<>> /\ graph_nodes = {} /\ build_at = 0
    /\ event = "none"

\* run_rag not called
NoRag ==
    /\ urls = <<>> /\ query = <<>> /\ chunks_list = <<>> /\ corpus = <<>>

NoBatch ==
    /\ queries = <<>> /\ outcomes = <<>> /\ fut = <<>> /\ yielded = {}
    /\ search_results_list = <<>> /\ combined_results = <<>>
    /\ worker = "none" /\ scrape_results = {} /\ scrape_results_str = {}
    /\ NoRag

\* what invoke gave: a value returned (ret) or an exception raised (exc)
Pending == [ret |-> "none", exc |-> "none"]

NoCall ==
    /\ json_response = FALSE /\ http = <<>> /\ attempt_number = 0
    /\ waited = 0 /\ invoke_pc = "idle" /\ invoke_result = Pending
    /\ active = {} /\ running = {} /\ triggered = {}

Init ==
    /\ Quiet
    /\ NoBatch
    /\ NoCall
    /\ state = EmptyState
    /\ pc = "idle"

(***************************************************************************)
(* build_workflow(agent_team, requirements)                                *)
(***************************************************************************)
build_workflow(team) ==
    /\ built = "none"
    /\ pc = "idle"
    /\ roster' = team
    /\ IF RosterOk(team)
         THEN /\ built' = "ok"
              /\ state' = RegisteredState(team)
              /\ AgentRegistry' = RegisteredNames(AgentRegistry, team)
              /\ node' = NodeName(PLANNER)
         ELSE /\ built' = "ValueError"
              /\ UNCHANGED <<state, AgentRegistry, node>>
    /\ UNCHANGED <<step, pc, exc, turnVars, hostVars, ops, routed, fanVars,
                   provVars, stepVars, sessionVars, workpad>>

Build == \E team \in SUBSET AgentNames : build_workflow(team)

(***************************************************************************)
(* build_workflow on a list of agents, loop by loop.  The list may name    *)
(* an agent more than once; the roster check looks only at membership.     *)
(***************************************************************************)
RECURSIVE SeqsUpTo(_, _)
SeqsUpTo(S, n) ==
    IF n = 0 THEN {<<>>}
    ELSE LET shorter == SeqsUpTo(S, n - 1)
         IN  shorter \cup {Append(q, x) : q \in shorter, x \in S}

\* agent_names = [agent.name for agent in agent_team], as far as the
\* membership tests and the dicts keyed by name are concerned
agent_names(team) == {team[i] : i \in 1..Len(team)}

\* a StateGraph that takes a second node of the same name in place of the
\* first
add_node_replace(nodes, n) == [nodes |-> nodes \cup {n}, exc |-> "none"]

\* StateGraph.add_node: a name already present is refused with a ValueError
add_node(nodes, n) ==
    IF n \in nodes THEN [nodes |-> nodes, exc |-> "ValueError"]
    ELSE [nodes |-> nodes \cup {n}, exc |-> "none"]

InitBuild ==
    /\ roster = {} /\ built = "none" /\ AgentRegistry = {}
    /\ node = "none" /\ step = 0 /\ exc = "none"
    /\ lastNode = "none" /\ lastRet = "none"
    /\ llmCalled = FALSE /\ toolRan = FALSE
    /\ progress_queue = <<>> /\ seen_progress_messages = {}
    /\ hostpc = "idle" /\ message = ""
    /\ ops = 0
    /\ routed = NotRouted
    /\ workpad = NoWorkpad
    /\ graph_nodes = {} /\ build_at = 0
    /\ event = "none"
    /\ NoBatch
    /\ NoCall
    /\ state = EmptyState
    /\ pc = "check"
    /\ agent_team \in SeqsUpTo(AgentNames, MaxTeam)

BuildFrame ==
    UNCHANGED <<step, exc, turnVars, hostVars, ops, routed, fanVars,
                provVars, stepVars, workpad, agent_team, event>>

\* lines 28-40: the roster check, create_state_typed_dict and the register
\* loop
CheckTeam ==
    /\ pc = "check"
    /\ IF RosterOk(agent_names(agent_team))
         THEN /\ state' = RegisteredState(agent_names(agent_team))
              /\ AgentRegistry' =
                     RegisteredNames(AgentRegistry, agent_names(agent_team))
              /\ pc' = "add_node"
              /\ UNCHANGED built
         ELSE /\ built' = "ValueError"
              /\ pc' = "done"
              /\ UNCHANGED <<state, AgentRegistry>>
    /\ UNCHANGED <<roster, node, graph_nodes, build_at>>
    /\ BuildFrame

\* lines 52-67: one turn of the loop that adds a node for each agent
AddNode ==
    /\ pc = "add_node"
    /\ build_at < Len(agent_team)
    /\ LET g == add_node(graph_nodes, NodeName(agent_team[build_at + 1]))
       IN  /\ graph_nodes' = g.nodes
           /\ IF g.exc = "none"
                THEN /\ build_at' = build_at + 1
                     /\ UNCHANGED <<built, pc>>
                ELSE /\ built' = g.exc
                     /\ pc' = "done"
                     /\ UNCHANGED build_at
    /\ UNCHANGED <<roster, AgentRegistry, state, node>>
    /\ BuildFrame

\* lines 100-117: the edges, compile, and the return of (workflow, state)
Compile ==
    /\ pc = "add_node"
    /\ build_at = Len(agent_team)
    /\ built' = "ok"
    /\ roster' = agent_names(agent_team)
    /\ node' = NodeName(PLANNER)
    /\ pc' = "done"
    /\ UNCHANGED <<AgentRegistry, state, graph_nodes, build_at>>
    /\ BuildFrame

NextBuild ==
    \/ CheckTeam
    \/ AddNode
    \/ Compile

SpecBuild == InitBuild /\ [][NextBuild]_vars

(***************************************************************************)
(* build_workflow called several times in one process (main builds a       *)
(* workflow at every "/end" message).  AgentRegistry is a module-level     *)
(* dict shared by all the calls; each call makes its own State.            *)
(***************************************************************************)
\* a build_workflow that runs the register loop before the roster check
build_call_register_first(team) ==
    /\ pc = "idle"
    /\ ops < MaxBuilds
    /\ ops' = ops + 1
    /\ roster' = team
    /\ state' = RegisteredState(team)
    /\ AgentRegistry' = RegisteredNames(AgentRegistry, team)
    /\ IF RosterOk(team)
         THEN built' = "ok" /\ node' = NodeName(PLANNER)
         ELSE built' = "ValueError" /\ UNCHANGED node
    /\ UNCHANGED <<step, pc, exc, turnVars, hostVars, routed, fanVars,
                   provVars, stepVars, sessionVars, workpad>>

\* one call of build_workflow, whatever the calls before it did
build_call(team) ==
    /\ pc = "idle"
    /\ ops < MaxBuilds
    /\ ops' = ops + 1
    /\ roster' = team
    /\ IF RosterOk(team)
         THEN /\ built' = "ok"
              /\ state' = RegisteredState(team)
              /\ AgentRegistry' = RegisteredNames(AgentRegistry, team)
              /\ node' = NodeName(PLANNER)
         ELSE /\ built' = "ValueError"
              /\ UNCHANGED <<state, AgentRegistry, node>>
    /\ UNCHANGED <<step, pc, exc, turnVars, hostVars, routed, fanVars,
                   provVars, stepVars, sessionVars, workpad>>

BuildCall == \E team \in SUBSET AgentNames : build_call(team)

NextRebuild == BuildCall

SpecRebuild == Init /\ [][NextRebuild]_vars

(***************************************************************************)
(* run_workflow, first part: start the workflow thread.                    *)
(***************************************************************************)
StartRun ==
    /\ built = "ok"
    /\ hostpc = "idle"
    /\ hostpc' = "waiting"
    /\ pc' = "stream"
    /\ UNCHANGED <<buildVars, state, node, step, exc, turnVars,
                   progress_queue, seen_progress_messages, message, ops,
                   routed, fanVars, provVars, stepVars, sessionVars, workpad>>

(***************************************************************************)
(* _run_workflow_sync: the for-loop over workflow.stream(state, configs).  *)
(***************************************************************************)
\* the loop's exit without the finally clause
LoopEnds_no_finally(e) ==
    /\ exc' = e
    /\ pc' = "done"
    /\ UNCHANGED progress_queue

\* except Exception ... finally: progress_queue.put_nowait(None)
LoopEnds(e) ==
    /\ exc' = e
    /\ pc' = "done"
    /\ progress_queue' = Append(progress_queue, Sentinel)

\* One node of the graph runs agent a: its invoke gave r, and succ is what
\* the edge out of the node gives (for the planner: routing_function, which
\* runs in the same step).  An exception ends the stream and the loop.
NodeRuns(a, r, succ) ==
    /\ state' = r.state
    /\ step' = step + 1
    /\ lastNode' = a
    /\ lastRet' = r.ret
    /\ llmCalled' = r.llm
    /\ toolRan' = r.tool
    /\ IF r.ret = "raise"
         THEN LoopEnds(r.exc) /\ UNCHANGED node
       ELSE IF succ.exc # "none"
         THEN LoopEnds(succ.exc) /\ UNCHANGED node
       ELSE /\ node' = succ.ret
            /\ pc' = "body"
            /\ UNCHANGED <<exc, progress_queue>>
    /\ routed' = IF a = PLANNER /\ r.ret # "raise" THEN succ ELSE NotRouted
    /\ workpad' = IF a = PLANNER THEN respond_workpad(state) ELSE workpad
    /\ UNCHANGED <<buildVars, seen_progress_messages, hostpc, message, ops,
                   fanVars, provVars, stepVars, sessionVars>>

\* the graph engine runs a node only while fewer than recursion_limit nodes
\* have run
WithinCap == step < RecursionLimit

\* the planner's node, with the conditional edge out of it
MetaTurn(responses, bound) ==
    /\ pc = "stream"
    /\ node = NodeName(PLANNER)
    /\ WithinCap
    /\ step < bound
    /\ \E response \in responses, providerRaises \in BOOLEAN :
         LET r == MetaAgent_invoke(state, PLANNER, response, providerRaises)
         IN  NodeRuns(PLANNER, r, routing_function(r.state, agent_nodes(roster)))

\* a tool-calling worker's node, with its edge back to the planner
ToolTurn(a, texts, bound) ==
    /\ pc = "stream"
    /\ node = NodeName(a)
    /\ WithinCap
    /\ step < bound
    /\ \E llmOut \in ToolLlmOutputs, toolText \in texts :
         NodeRuns(a, ToolCallingAgent_invoke(state, a, llmOut, toolText),
                  Returned(FixedSuccessor(a)))

\* the reporter's node, with its edge to END
ReporterTurn(bound) ==
    /\ pc = "stream"
    /\ node = NodeName(REPORTER)
    /\ WithinCap
    /\ step < bound
    /\ NodeRuns(REPORTER, ReporterAgent_invoke(state, REPORTER),
                Returned(FixedSuccessor(REPORTER)))

MetaNode == MetaTurn(PlannerOutputs, MaxSteps)
ToolNode == \E a \in ToolAgents : ToolTurn(a, ToolTexts, MaxSteps)
ReporterNode == ReporterTurn(MaxSteps)

\* the stream has nothing left to run: the for-loop ends normally
StreamExhausted ==
    /\ pc = "stream"
    /\ node = END
    /\ LoopEnds("none")
    /\ UNCHANGED <<buildVars, state, node, step, turnVars,
                   seen_progress_messages, hostpc, message, ops,
                   routed, fanVars, provVars, stepVars, sessionVars, workpad>>


\* the step cap of the graph engine: with recursion_limit node executions
\* done and a node still to run, the stream raises instead of running it
StreamCap ==
    /\ pc = "stream"
    /\ node # END
    /\ ~WithinCap
    /\ LoopEnds("GraphRecursionError")
    /\ UNCHANGED <<buildVars, state, node, step, turnVars,
                   seen_progress_messages, hostpc, message, ops,
                   routed, fanVars, provVars, stepVars, sessionVars, workpad>>

BodyRaises(e) == [exc |-> e, task |-> Sentinel]
BodyTask(t) == [exc |-> "none", task |-> t]

\* The body of the for-loop for one event: the task_tracking_message it
\* builds, or the exception it raises.  nodeRet is what the node of the
\* event returned.  The texts of the model are shorter than 50 characters,
\* so message[:50] is the message.
LoopBodyOutcome(st, nodeRet) ==
    IF PLANNER \notin DOMAIN st THEN BodyRaises("AttributeError")
    ELSE IF st[PLANNER] = <<>> THEN BodyRaises("IndexError")
    ELSE LET c == Last(st[PLANNER]).page_content
             reporter_agent_node ==
                 IF nodeRet = "state" /\ REPORTER \in DOMAIN st
                   THEN st[REPORTER] ELSE <<>>
             agent == <<c.agentTag, c.agentVal>>
         IN  IF c.kind = "text" THEN BodyRaises("JSONDecodeError")
             ELSE IF c.kind = "array" THEN BodyRaises("AttributeError")
             ELSE IF c.s4 \in {"absent", "nonobject"}
                    THEN BodyRaises("AttributeError")
             ELSE IF reporter_agent_node # <<>>
                    THEN BodyTask(Task(agent,
                             Last(reporter_agent_node).page_content.text))
             ELSE IF c.s4 = "nodraft" THEN BodyRaises("TypeError")
             ELSE BodyTask(Task(agent, c.draft))

\* the loop body putting every task_tracking_message, seen or not
LoopBody_no_dedupe ==
    /\ pc = "body"
    /\ LET b == LoopBodyOutcome(state, lastRet)
       IN  IF b.exc # "none"
             THEN LoopEnds(b.exc) /\ UNCHANGED seen_progress_messages
           ELSE /\ pc' = "stream"
                /\ progress_queue' = Append(progress_queue, b.task)
                /\ seen_progress_messages' =
                       seen_progress_messages \cup {b.task}
                /\ UNCHANGED exc
    /\ UNCHANGED <<buildVars, state, node, step, turnVars, hostpc, message,
                   ops, routed, fanVars, provVars, stepVars,
                   sessionVars, workpad>>

\* the body of the for-loop, and the except/finally around the loop
LoopBody ==
    /\ pc = "body"
    /\ LET b == LoopBodyOutcome(state, lastRet)
       IN  IF b.exc # "none"
             THEN LoopEnds(b.exc) /\ UNCHANGED seen_progress_messages
           ELSE /\ pc' = "stream"
                /\ IF b.task \notin seen_progress_messages
                     THEN /\ progress_queue' = Append(progress_queue, b.task)
                          /\ seen_progress_messages' =
                                 seen_progress_messages \cup {b.task}
                     ELSE UNCHANGED <<progress_queue, seen_progress_messages>>
                /\ UNCHANGED exc
    /\ UNCHANGED <<buildVars, state, node, step, turnVars, hostpc, message,
                   ops, routed, fanVars, provVars, stepVars,
                   sessionVars, workpad>>

(***************************************************************************)
(* run_workflow, second part: the host's loop on the queue and the final   *)
(* read of State.                                                          *)
(***************************************************************************)
\* a host loop that leaves at the first item of the queue, whatever it is
HostGet_breaks_on_first ==
    /\ hostpc = "waiting"
    /\ progress_queue # <<>>
    /\ progress_queue' = Tail(progress_queue)
    /\ hostpc' = "final"
    /\ UNCHANGED <<buildVars, state, runVars, turnVars,
                   seen_progress_messages, message, ops, routed, fanVars,
                   provVars, stepVars, sessionVars, workpad>>

\* progress_message = await progress_queue.get()
HostGet ==
    /\ hostpc = "waiting"
    /\ progress_queue # <<>>
    /\ progress_queue' = Tail(progress_queue)
    /\ hostpc' = IF Head(progress_queue) = Sentinel THEN "final" ELSE "waiting"
    /\ UNCHANGED <<buildVars, state, runVars, turnVars,
                   seen_progress_messages, message, ops, routed, fanVars,
                   provVars, stepVars, sessionVars, workpad>>

NoFinalDraft == "No final draft available."

FinalRaises(e) == [exc |-> e, message |-> ""]
FinalMessage(m) == [exc |-> "none", message |-> m]

\* the final read taking the planner's whole Result for the message
final_message_raw(st) ==
    IF PLANNER \notin DOMAIN st THEN FinalMessage(NoFinalDraft)
    ELSE IF st[PLANNER] = <<>> THEN FinalMessage(NoFinalDraft)
    ELSE FinalMessage(Last(st[PLANNER]).page_content.text)

\* lines 226-242: the message computed from the planner's last Result
final_message(st) ==
    IF PLANNER \notin DOMAIN st THEN FinalMessage(NoFinalDraft)
    ELSE IF st[PLANNER] = <<>> THEN FinalMessage(NoFinalDraft)
    ELSE LET c == Last(st[PLANNER]).page_content
         IN  IF c.kind = "text" THEN FinalMessage(NoFinalDraft)
             ELSE IF c.kind = "array" THEN FinalRaises("AttributeError")
             ELSE IF c.s4 = "nonobject" THEN FinalRaises("AttributeError")
             ELSE IF c.s4 = "draft" THEN FinalMessage(c.draft)
             ELSE FinalMessage(NoFinalDraft)

HostFinal ==
    /\ hostpc = "final"
    /\ LET f == final_message(state)
       IN  /\ hostpc' = IF f.exc = "none" THEN "returned" ELSE "raised"
           /\ message' = f.message
    /\ UNCHANGED <<buildVars, state, runVars, turnVars,
                   progress_queue, seen_progress_messages, ops, routed,
                   fanVars, provVars, stepVars, sessionVars, workpad>>

(***************************************************************************)
(* main, the handler of a message event, once the run is over.  The        *)
(* session holds the State of the run: it is saved before run_workflow is  *)
(* called and again after it has returned.                                 *)
(***************************************************************************)
\* lines 265-268: if state: previous_work =
\*     state.get("reporter_agent", "No response ...")[-1].page_content
previous_work(st) ==
    IF DOMAIN st = {} THEN "skipped"
    ELSE IF REPORTER \notin DOMAIN st THEN "AttributeError"
    ELSE IF st[REPORTER] = <<>> THEN "IndexError"
    ELSE "read"

\* what the handler's chat_model.invoke(messages) does
ChatOutcomes == {"content", "RetryError"}

main ==
    /\ hostpc \in {"returned", "raised"}
    /\ event = "none"
    /\ \E chat \in ChatOutcomes :
         event' = IF previous_work(state) \in {"AttributeError", "IndexError"}
                    THEN previous_work(state)
                  ELSE IF chat = "RetryError" THEN "RetryError"
                  ELSE "handled"
    /\ UNCHANGED <<buildVars, state, runVars, turnVars, hostVars, ops,
                   routed, fanVars, provVars, stepVars, workpad,
                   agent_team, graph_nodes, build_at>>

Next ==
    \/ Build
    \/ StartRun
    \/ MetaNode
    \/ ToolNode
    \/ ReporterNode
    \/ StreamExhausted
    \/ LoopBody
    \/ HostGet
    \/ HostFinal
    \/ main

Spec == Init /\ [][Next]_vars


(***************************************************************************)
(* A run under a planner that names a tool-calling worker on every turn:   *)
(* it emits the same Decision Artifact each time, and each worker's tool   *)
(* keeps returning the same text.  Runs are followed up to the step cap.   *)
(***************************************************************************)
WorkerNaming(team) ==
    {JsonObject("str", a, "draft", d) : a \in team \cap ToolAgents, d \in Drafts}

StuckResponses ==
    IF state[PLANNER] = <<>> THEN WorkerNaming(roster)
    ELSE {Last(state[PLANNER]).page_content}

RepeatedTexts(a) ==
    IF state[a] = <<>> THEN ToolTexts
    ELSE {Last(state[a]).page_content.text}

\* the rosters such a planner can work with: those with a tool-calling worker
BuildWithWorker ==
    \E team \in {t \in SUBSET AgentNames : t \cap ToolAgents # {}} :
        build_workflow(team)

MetaNodeStuck == MetaTurn(StuckResponses, RecursionLimit)
ToolNodeStuck ==
    \E a \in ToolAgents : ToolTurn(a, RepeatedTexts(a), RecursionLimit)

NextCap ==
    \/ BuildWithWorker
    \/ StartRun
    \/ MetaNodeStuck
    \/ ToolNodeStuck
    \/ StreamCap
    \/ LoopBody
    \/ HostGet
    \/ HostFinal

SpecCap == Init /\ [][NextCap]_vars

\* the executor thread and the host's event loop both keep running
FairSpecCap == SpecCap /\ WF_vars(NextCap)

(***************************************************************************)
(* invoke applied directly to an arbitrary State (no graph around it).     *)
(***************************************************************************)
\* States to start from: any set of keys; under the planner's key nothing
\* or one Result of any content; nothing under the other keys.
UnitStates ==
    {[k \in keys |-> IF k = PLANNER THEN p ELSE <<>>] :
        keys \in SUBSET AgentNames,
        p \in {<<>>} \cup {<<Document(c, PLANNER)>> : c \in PlannerOutputs}}

\* what the planner's provider returns in these direct invocations
UnitResponses ==
    {JsonObject("str", "serper_agent", "draft", "d1"),
     JsonObject("str", REPORTER, "draft", "d2"),
     JsonObject("str", REPORTER, "draft", ""),
     ErrorEnvelope}

InitUnit ==
    /\ Quiet
    /\ NoBatch
    /\ NoCall
    /\ state \in UnitStates
    /\ pc = "unit"

Invoked(a, r) ==
    /\ pc = "unit"
    /\ ops < MaxUnitOps
    /\ ops' = ops + 1
    /\ state' = r.state
    /\ lastNode' = a
    /\ lastRet' = r.ret
    /\ llmCalled' = r.llm
    /\ toolRan' = r.tool
    /\ exc' = r.exc
    /\ workpad' = IF a = PLANNER THEN respond_workpad(state) ELSE workpad
    /\ UNCHANGED <<buildVars, node, step, pc, hostVars, routed, fanVars,
                   provVars, stepVars, sessionVars>>

InvokeMeta ==
    \E response \in UnitResponses, providerRaises \in BOOLEAN :
        Invoked(PLANNER,
                MetaAgent_invoke(state, PLANNER, response, providerRaises))

InvokeTool ==
    \E a \in ToolAgents, llmOut \in ToolLlmOutputs, toolText \in ToolTexts :
        Invoked(a, ToolCallingAgent_invoke(state, a, llmOut, toolText))

InvokeReporter ==
    Invoked(REPORTER, ReporterAgent_invoke(state, REPORTER))

NextUnit ==
    \/ InvokeMeta
    \/ InvokeTool
    \/ InvokeReporter

SpecUnit == InitUnit /\ [][NextUnit]_vars

(***************************************************************************)
(* The whole agent contract applied to one State: register and            *)
(* write_to_state called directly, next to invoke.                         *)
(***************************************************************************)
\* BaseAgent.register on an existing State: state[self.name] = []
register(st, self) ==
    [k \in DOMAIN st \cup {self} |-> IF k = self THEN <<>> ELSE st[k]]

Register ==
    \E a \in AgentNames :
        /\ pc = "unit"
        /\ ops < MaxUnitOps
        /\ ops' = ops + 1
        /\ state' = register(state, a)
        /\ AgentRegistry' = RegisteredNames(AgentRegistry, {a})
        /\ lastNode' = a
        /\ lastRet' = "registered"
        /\ UNCHANGED <<roster, built, node, step, pc, exc, llmCalled,
                       toolRan, hostVars, routed, fanVars, provVars,
                       stepVars, sessionVars, workpad>>

WriteToState ==
    \E a \in AgentNames, t \in ToolTexts :
        /\ pc = "unit"
        /\ ops < MaxUnitOps
        /\ ops' = ops + 1
        /\ state' = write_to_state(state, a, PlainText(t))
        /\ lastNode' = a
        /\ lastRet' = "written"
        /\ UNCHANGED <<buildVars, node, step, pc, exc, llmCalled, toolRan,
                       hostVars, routed, fanVars, provVars, stepVars,
                       sessionVars, workpad>>

NextContract ==
    \/ InvokeMeta
    \/ InvokeTool
    \/ InvokeReporter
    \/ Register
    \/ WriteToState

SpecContract == InitUnit /\ [][NextContract]_vars


(***************************************************************************)
(* SerperDevAgent.execute_tool: the fan-out of one batch of queries over a *)
(* ThreadPoolExecutor and the fan-in through as_completed.                 *)
(***************************************************************************)
Queries == {"q1", "q2"}

\* What search_query does for one unit: "hits" (organic results), 
\* "error_response" (serper_search returned {"error": ...}), "raises" (an
\* exception leaves search_query).
UnitOutcomes == {"hits", "error_response", "raises"}

\* format_search_results: one block per organic result, each with the
\* query's text; the empty string when there is no organic result.
format_search_results(q, outcome) ==
    IF outcome = "hits"
      THEN [kind |-> "formatted", query |-> q]
      ELSE [kind |-> "formatted", query |-> ""]

\* error_message = f"Error for query '{query}': {exc}"
error_message(q) == [kind |-> "error", query |-> q]

Batches == UNION {[1..n -> Queries] : n \in 0..MaxQueries}

InitFanout ==
    /\ Quiet
    /\ NoRag
    /\ NoCall
    /\ state = EmptyState
    /\ pc = "fanout"
    /\ queries \in Batches
    /\ outcomes \in [1..Len(queries) -> UnitOutcomes]
    /\ fut = [i \in 1..Len(queries) |-> "queued"]
    /\ yielded = {}
    /\ search_results_list = <<>>
    /\ combined_results = <<>>
    /\ worker = "serper_agent"
    /\ scrape_results = {}
    /\ scrape_results_str = {}

Units == 1..Len(queries)
Running == {i \in Units : fut[i] = "running"}

FanFrame == UNCHANGED <<buildVars, state, node, step, turnVars, hostVars,
                        ops, routed, queries, outcomes, provVars, stepVars,
                        sessionVars, ragVars,
                        worker, workpad>>

\* an execute_tool that returns the empty result for an empty batch
NoQueries_returns_empty ==
    /\ pc = "fanout"
    /\ queries = <<>>
    /\ pc' = "returned"
    /\ UNCHANGED <<exc, fut, yielded, search_results_list, combined_results,
                   scrape_results, scrape_results_str>>
    /\ FanFrame

\* if not queries: raise ValueError(...); tool_response.get("queries") is
\* None for an object without the list (an error envelope), and None and
\* the empty list both count as "not queries": both are the empty batch
NoQueries ==
    /\ pc = "fanout"
    /\ queries = <<>>
    /\ pc' = "raised"
    /\ exc' = "ValueError"
    /\ UNCHANGED <<fut, yielded, search_results_list, combined_results,
                   scrape_results, scrape_results_str>>
    /\ FanFrame

\* a pool that starts a thread for every submitted unit
UnitStart_unbounded(i) ==
    /\ pc = "fanout"
    /\ fut[i] = "queued"
    /\ fut' = [fut EXCEPT ![i] = "running"]
    /\ UNCHANGED <<pc, exc, yielded, search_results_list, combined_results,
                   scrape_results, scrape_results_str>>
    /\ FanFrame

\* a pool thread takes a submitted unit; the pool has max_workers threads
UnitStart(i) ==
    /\ pc = "fanout"
    /\ fut[i] = "queued"
    /\ Cardinality(Running) < max_workers
    /\ fut' = [fut EXCEPT ![i] = "running"]
    /\ UNCHANGED <<pc, exc, yielded, search_results_list, combined_results,
                   scrape_results, scrape_results_str>>
    /\ FanFrame

\* search_query returns or raises: the future is done
UnitFinish(i) ==
    /\ pc = "fanout"
    /\ fut[i] = "running"
    /\ fut' = [fut EXCEPT ![i] = "done"]
    /\ UNCHANGED <<pc, exc, yielded, search_results_list, combined_results,
                   scrape_results, scrape_results_str>>
    /\ FanFrame

\* the as_completed loop reporting a failure without the query
Collected_anonymous(i) ==
    IF outcomes[i] = "raises"
      THEN error_message("")
      ELSE format_search_results(queries[i], outcomes[i])

\* what the body of the as_completed loop appends for unit i
Collected(i) ==
    IF outcomes[i] = "raises"
      THEN error_message(queries[i])
      ELSE format_search_results(queries[i], outcomes[i])

\* for future in as_completed(future_to_query): one done future, in the
\* order of completion
Collect(i) ==
    /\ pc = "fanout"
    /\ worker = "serper_agent"
    /\ fut[i] = "done"
    /\ i \notin yielded
    /\ yielded' = yielded \cup {i}
    /\ search_results_list' = Append(search_results_list, Collected(i))
    /\ UNCHANGED <<pc, exc, fut, combined_results, scrape_results,
                   scrape_results_str>>
    /\ FanFrame

\* the loop left as soon as one future has been handled
Join_early ==
    /\ pc = "fanout"
    /\ worker = "serper_agent"
    /\ queries # <<>>
    /\ yielded # {}
    /\ combined_results' = search_results_list
    /\ pc' = "returned"
    /\ UNCHANGED <<exc, fut, yielded, search_results_list, scrape_results,
                   scrape_results_str>>
    /\ FanFrame

\* as_completed is exhausted; combined_results = "\n".join(...): the
\* entries, one after the other
Join ==
    /\ pc = "fanout"
    /\ worker = "serper_agent"
    /\ queries # <<>>
    /\ yielded = Units
    /\ combined_results' = search_results_list
    /\ pc' = "returned"
    /\ UNCHANGED <<exc, fut, yielded, search_results_list, scrape_results,
                   scrape_results_str>>
    /\ FanFrame

StartUnit == \E i \in Units : UnitStart(i)
FinishUnit == \E i \in Units : UnitFinish(i)
CollectUnit == \E i \in Units : Collect(i)

NextFanout ==
    \/ NoQueries
    \/ StartUnit
    \/ FinishUnit
    \/ CollectUnit
    \/ Join

SpecFanout == InitFanout /\ [][NextFanout]_vars

(***************************************************************************)
(* WebScraperAgent.execute_tool: the same fan-out over the urls, the       *)
(* fan-in into a dict keyed by url.  The batch is held in queries.         *)
(***************************************************************************)
\* what scrape_url gives for unit i when it returns: scraper's result dict,
\* {"source": url, "content": ...}; "error_response" stands for the result
\* whose content is the "Unsupported document type" text
scraper(url, outcome) ==
    IF outcome = "hits"
      THEN [kind |-> "content", query |-> url]
      ELSE [kind |-> "unsupported", query |-> url]

\* the item the as_completed loop stores for unit i: scrape_results[url] =
\* result, or {"error": str(exc)}
Scraped(i) ==
    IF outcomes[i] = "raises"
      THEN <<queries[i], [kind |-> "error", query |-> ""]>>
      ELSE <<queries[i], scraper(queries[i], outcomes[i])>>

\* d[key] = value on a dict held as its set of items
DictSet(d, item) == {e \in d : e[1] # item[1]} \cup {item}

InitScrape ==
    /\ Quiet
    /\ NoRag
    /\ NoCall
    /\ state = EmptyState
    /\ pc = "fanout"
    /\ queries \in Batches
    /\ outcomes \in [1..Len(queries) -> UnitOutcomes]
    /\ fut = [i \in 1..Len(queries) |-> "queued"]
    /\ yielded = {}
    /\ search_results_list = <<>>
    /\ combined_results = <<>>
    /\ worker = "web_scraper_agent"
    /\ scrape_results = {}
    /\ scrape_results_str = {}

ScrapeCollect(i) ==
    /\ pc = "fanout"
    /\ worker = "web_scraper_agent"
    /\ fut[i] = "done"
    /\ i \notin yielded
    /\ yielded' = yielded \cup {i}
    /\ scrape_results' = DictSet(scrape_results, Scraped(i))
    /\ UNCHANGED <<pc, exc, fut, search_results_list, combined_results,
                   scrape_results_str>>
    /\ FanFrame

\* scrape_results_str = json.dumps(scrape_results)
ScrapeJoin ==
    /\ pc = "fanout"
    /\ worker = "web_scraper_agent"
    /\ queries # <<>>
    /\ yielded = Units
    /\ scrape_results_str' = scrape_results
    /\ pc' = "returned"
    /\ UNCHANGED <<exc, fut, yielded, search_results_list, combined_results,
                   scrape_results>>
    /\ FanFrame

ScrapeCollectUnit == \E i \in Units : ScrapeCollect(i)

NextScrape ==
    \/ NoQueries
    \/ StartUnit
    \/ FinishUnit
    \/ ScrapeCollectUnit
    \/ ScrapeJoin

SpecScrape == InitScrape /\ [][NextScrape]_vars

(***************************************************************************)
(* run_rag: one intelligent_chunking unit per pair of zip(urls, query), on *)
(* a pool of min(len(urls), 5) threads; the corpus is the concatenation of *)
(* the units' results in the order of completion.                          *)
(***************************************************************************)
\* what intelligent_chunking meets for a URL: the reader gives chunks with
\* text; the reader fails or gives no chunk with text; the 20 s of
\* @timeout run out; LLM_SHERPA_SERVER is not set
ChunkOutcomes == {"chunks", "no_doc", "timeout", "no_server"}

\* intelligent_chunking under @timeout(20): the list of Documents returned
intelligent_chunking(url, outcome) ==
    IF outcome = "chunks" THEN <<[kind |-> "chunk", source |-> url]>>
    ELSE IF outcome = "no_doc" THEN <<>>
    ELSE IF outcome = "timeout" THEN <<[kind |-> "timeout", source |-> url]>>
    ELSE <<[kind |-> "error", source |-> url]>>

\* zip(urls, query): as many pairs as the shorter list has elements
zip_len(a, b) == IF Len(a) < Len(b) THEN Len(a) ELSE Len(b)

\* max_workers=min(len(urls), 5)
rag_max_workers == IF Len(urls) < max_workers THEN Len(urls) ELSE max_workers

RagUnits == DOMAIN fut

InitRag ==
    /\ Quiet
    /\ NoCall
    /\ state = EmptyState
    /\ pc = "rag"
    /\ urls \in SeqsUpTo(Queries, MaxUrls)
    /\ query \in SeqsUpTo(Queries, MaxUrls)
    /\ outcomes \in [1..Len(urls) -> ChunkOutcomes]
    /\ queries = <<>> /\ fut = <<>> /\ yielded = {}
    /\ search_results_list = <<>> /\ combined_results = <<>>
    /\ worker = "none" /\ scrape_results = {} /\ scrape_results_str = {}
    /\ chunks_list = <<>> /\ corpus = <<>>

RagFrame == UNCHANGED <<buildVars, state, node, step, turnVars, hostVars,
                        ops, routed, queries, outcomes, provVars, stepVars,
                        sessionVars, worker, workpad, urls, query,
                        search_results_list, combined_results,
                        scrape_results, scrape_results_str>>

\* ThreadPoolExecutor(max_workers=0) raises ValueError; otherwise the list
\* comprehension submits one unit per pair of zip(urls, query)
RagSubmit ==
    /\ pc = "rag"
    /\ IF rag_max_workers = 0
         THEN /\ pc' = "raised"
              /\ exc' = "ValueError"
              /\ UNCHANGED fut
         ELSE /\ pc' = "chunking"
              /\ fut' = [i \in 1..zip_len(urls, query) |-> "queued"]
              /\ UNCHANGED exc
    /\ UNCHANGED <<yielded, chunks_list, corpus>>
    /\ RagFrame

RagStart(i) ==
    /\ pc = "chunking"
    /\ fut[i] = "queued"
    /\ Cardinality({j \in RagUnits : fut[j] = "running"}) < rag_max_workers
    /\ fut' = [fut EXCEPT ![i] = "running"]
    /\ UNCHANGED <<pc, exc, yielded, chunks_list, corpus>>
    /\ RagFrame

RagFinish(i) ==
    /\ pc = "chunking"
    /\ fut[i] = "running"
    /\ fut' = [fut EXCEPT ![i] = "done"]
    /\ UNCHANGED <<pc, exc, yielded, chunks_list, corpus>>
    /\ RagFrame

\* chunks_list = [future.result() for future in as_completed(futures)]
RagCollect(i) ==
    /\ pc = "chunking"
    /\ fut[i] = "done"
    /\ i \notin yielded
    /\ yielded' = yielded \cup {i}
    /\ chunks_list' =
           Append(chunks_list, intelligent_chunking(urls[i], outcomes[i]))
    /\ UNCHANGED <<pc, exc, fut, corpus>>
    /\ RagFrame

RECURSIVE Flatten(_)
Flatten(ll) == IF ll = <<>> THEN <<>> ELSE Head(ll) \o Flatten(Tail(ll))

\* corpus = [item for sublist in chunks_list for item in sublist]
RagCorpus ==
    /\ pc = "chunking"
    /\ yielded = RagUnits
    /\ corpus' = Flatten(chunks_list)
    /\ pc' = "corpus"
    /\ UNCHANGED <<exc, fut, yielded, chunks_list>>
    /\ RagFrame

RagStartUnit == \E i \in RagUnits : RagStart(i)
RagFinishUnit == \E i \in RagUnits : RagFinish(i)
RagCollectUnit == \E i \in RagUnits : RagCollect(i)

NextRag ==
    \/ RagSubmit
    \/ RagStartUnit
    \/ RagFinishUnit
    \/ RagCollectUnit
    \/ RagCorpus

SpecRag == InitRag /\ [][NextRag]_vars

(***************************************************************************)
(* One worker turn from execute_tool on: ToolCallingAgent.invoke has read  *)
(* its instructions and parsed the parameter object; execute_tool runs the *)
(* batch, and its result is written to State.                              *)
(***************************************************************************)
\* the State a worker's turn starts from: the roster's keys, and the
\* planner's artifact naming the worker
TurnState(w, d) ==
    [k \in {PLANNER, REPORTER, w} |->
        IF k = PLANNER
          THEN <<Document(JsonObject("str", w, "draft", d), PLANNER)>>
          ELSE <<>>]

InitTurn ==
    /\ Quiet
    /\ NoRag
    /\ NoCall
    /\ pc = "fanout"
    /\ queries \in Batches
    /\ outcomes \in [1..Len(queries) -> UnitOutcomes]
    /\ fut = [i \in 1..Len(queries) |-> "queued"]
    /\ yielded = {}
    /\ search_results_list = <<>>
    /\ combined_results = <<>>
    /\ worker \in ToolAgents
    /\ scrape_results = {}
    /\ scrape_results_str = {}
    /\ state = TurnState(worker, "d1")

\* result = self.execute_tool(...)
ToolResult ==
    [kind |-> "text",
     text |-> IF worker = "serper_agent" THEN combined_results
                                         ELSE <<scrape_results_str>>,
     agentTag |-> "absent", agentVal |-> "", s4 |-> "absent", draft |-> ""]

\* self.write_to_state(state=state, response=result); return state
WriteResult ==
    /\ pc = "returned"
    /\ state' = write_to_state(state, worker, ToolResult)
    /\ pc' = "written"
    /\ lastNode' = worker
    /\ lastRet' = "state"
    /\ llmCalled' = TRUE
    /\ toolRan' = TRUE
    /\ UNCHANGED <<buildVars, node, step, exc, hostVars, ops, routed,
                   fanVars, provVars, stepVars, sessionVars, workpad>>

NextTurn ==
    \/ NoQueries
    \/ StartUnit
    \/ FinishUnit
    \/ CollectUnit
    \/ Join
    \/ ScrapeCollectUnit
    \/ ScrapeJoin
    \/ WriteResult

SpecTurn == InitTurn /\ [][NextTurn]_vars

(***************************************************************************)
(* The pool under batches larger than max_workers, for either worker.      *)
(* The units of a batch are alike here: what is followed is the pool.      *)
(***************************************************************************)
InitPool ==
    /\ Quiet
    /\ NoRag
    /\ NoCall
    /\ state = EmptyState
    /\ pc = "fanout"
    /\ \E n \in 0..MaxBatch : queries = [i \in 1..n |-> "q1"]
    /\ \E o \in UnitOutcomes : outcomes = [i \in 1..Len(queries) |-> o]
    /\ fut = [i \in 1..Len(queries) |-> "queued"]
    /\ yielded = {}
    /\ search_results_list = <<>>
    /\ combined_results = <<>>
    /\ worker \in ToolAgents
    /\ scrape_results = {}
    /\ scrape_results_str = {}

NextPool ==
    \/ NoQueries
    \/ StartUnit
    \/ FinishUnit
    \/ CollectUnit
    \/ Join
    \/ ScrapeCollectUnit
    \/ ScrapeJoin

SpecPool == InitPool /\ [][NextPool]_vars

\* the pool's threads and the thread of execute_tool keep running
FairSpecPool == SpecPool /\ WF_vars(NextPool)


(***************************************************************************)
(* The compiled graph run by the engine in supersteps: the nodes triggered *)
(* for a superstep are started, possibly side by side, and the next        *)
(* superstep starts when all of them have returned.  Each invoke is a      *)
(* start and an end; its State write happens before its end.               *)
(***************************************************************************)
\* add_edge(START, agent_nodes["meta_agent"])
EntryNodes == {NodeName(PLANNER)}

\* the nodes an edge triggers, with the reporter's node triggered next to
\* whatever the edge names
Triggered_with_reporter(succ) ==
    IF succ.ret \in {END, "none"} THEN {} ELSE {succ.ret, NodeName(REPORTER)}

\* the nodes an edge triggers: the one node it names, none for END
Triggered(succ) ==
    IF succ.ret \in {END, "none"} THEN {} ELSE {succ.ret}

\* the edge out of agent a's node: add_conditional_edges for the planner,
\* add_edge for the others
EdgeOut(a, st, nodes) ==
    IF a = PLANNER THEN routing_function(st, nodes)
                   ELSE Returned(FixedSuccessor(a))

ValidRosters == {t \in SUBSET AgentNames : RosterOk(t)}

InitEngine ==
    /\ roster \in ValidRosters
    /\ built = "ok"
    /\ AgentRegistry = RegisteredNames({}, roster)
    /\ state = RegisteredState(roster)
    /\ node = "none" /\ step = 0 /\ exc = "none"
    /\ pc = "engine"
    /\ lastNode = "none" /\ lastRet = "none"
    /\ llmCalled = FALSE /\ toolRan = FALSE
    /\ progress_queue = <<>> /\ seen_progress_messages = {}
    /\ hostpc = "idle" /\ message = ""
    /\ ops = 0
    /\ routed = NotRouted
    /\ workpad = NoWorkpad
    /\ agent_team = <<>> /\ graph_nodes = {} /\ build_at = 0
    /\ event = "none"
    /\ NoBatch
    /\ json_response = FALSE /\ http = <<>> /\ attempt_number = 0
    /\ waited = 0 /\ invoke_pc = "idle" /\ invoke_result = Pending
    /\ active = EntryNodes
    /\ running = {}
    /\ triggered = {}

EngineFrame ==
    UNCHANGED <<buildVars, node, hostVars, ops, fanVars, provVars,
                sessionVars>>

\* the engine calls the node's action: agent.invoke(state) begins
BeginInvoke(a) ==
    /\ pc = "engine"
    /\ NodeName(a) \in active
    /\ WithinCap
    /\ step < MaxSteps
    /\ active' = active \ {NodeName(a)}
    /\ running' = running \cup {a}
    /\ UNCHANGED <<state, step, pc, exc, turnVars, routed, triggered,
                   workpad>>
    /\ EngineFrame

\* what agent a's invoke can do on State st
InvokeOutcomes(a, st) ==
    IF a = PLANNER
      THEN {MetaAgent_invoke(st, a, response, providerRaises) :
                response \in PlannerOutputs, providerRaises \in BOOLEAN}
    ELSE IF a = REPORTER
      THEN {ReporterAgent_invoke(st, a)}
    ELSE {ToolCallingAgent_invoke(st, a, llmOut, toolText) :
                llmOut \in ToolLlmOutputs, toolText \in ToolTexts}

\* agent.invoke returns or raises; the edge out of the node is evaluated
EndInvoke(a) ==
    /\ pc = "engine"
    /\ a \in running
    /\ running' = running \ {a}
    /\ \E r \in InvokeOutcomes(a, state) :
         LET succ == EdgeOut(a, r.state, agent_nodes(roster))
             failed == IF r.ret = "raise" THEN r.exc ELSE succ.exc
         IN  /\ state' = r.state
             /\ lastNode' = a
             /\ lastRet' = r.ret
             /\ llmCalled' = r.llm
             /\ toolRan' = r.tool
             /\ step' = step + 1
             /\ routed' = IF a = PLANNER /\ r.ret # "raise"
                            THEN succ ELSE NotRouted
             /\ exc' = failed
             /\ pc' = IF failed # "none" THEN "done" ELSE "engine"
             /\ triggered' = IF failed # "none" THEN triggered
                             ELSE triggered \cup Triggered(succ)
    /\ workpad' = IF a = PLANNER THEN respond_workpad(state) ELSE workpad
    /\ UNCHANGED active
    /\ EngineFrame

\* all nodes of the superstep have returned: the triggered nodes form the
\* next superstep; with none triggered the stream is exhausted
Superstep ==
    /\ pc = "engine"
    /\ active = {}
    /\ running = {}
    /\ active' = triggered
    /\ triggered' = {}
    /\ pc' = IF triggered = {} THEN "done" ELSE "engine"
    /\ UNCHANGED <<state, step, exc, turnVars, routed, running, workpad>>
    /\ EngineFrame

BeginNode == \E a \in roster : BeginInvoke(a)
EndNode == \E a \in roster : EndInvoke(a)

NextEngine ==
    \/ BeginNode
    \/ EndNode
    \/ Superstep

SpecEngine == InitEngine /\ [][NextEngine]_vars


(***************************************************************************)
(* One call of a Capability Provider: OpenAIModel.invoke around            *)
(* BaseModel._make_request, which tenacity's retry decorator wraps.        *)
(***************************************************************************)
\* What one request attempt meets:
\*   "ConnectionError"  requests.post raises (a RequestException)
\*   "HTTPError"        raise_for_status raises (a RequestException)
\*   "ok_json"          200, and the message content is JSON text
\*   "ok_not_json"      200, and the message content is not JSON
\*   "no_choices"       200, and the body has no "choices" member
AttemptOutcomes ==
    {"ConnectionError", "HTTPError", "ok_json", "ok_not_json", "no_choices"}

\* retry=retry_if_exception_type(requests.RequestException)
RequestException == {"ConnectionError", "HTTPError"}

ProviderReturns(v) == [ret |-> v, exc |-> "none"]
ProviderRaises(e) == [ret |-> "none", exc |-> e]

\* OpenAIModel.invoke, from what the last attempt of
\* _make_request met.  When the last attempt raised a RequestException the
\* decorator has given up and raises its own RetryError (reraise is not
\* set), which is not a RequestException and not a JSONDecodeError, so
\* neither except clause takes it.
invoke_outcome(last, json) ==
    IF last \in RequestException
      THEN ProviderRaises("RetryError")
    ELSE IF last = "no_choices" THEN ProviderRaises("KeyError")
    ELSE IF ~json THEN ProviderReturns("content")
    ELSE IF last = "ok_not_json" THEN ProviderReturns("error_envelope")
    ELSE ProviderReturns("json_content")

InitProvider ==
    /\ Quiet
    /\ NoBatch
    /\ state = EmptyState
    /\ pc = "provider"
    /\ json_response \in BOOLEAN
    /\ http \in [1..stop_after_attempt -> AttemptOutcomes]
    /\ attempt_number = 0
    /\ waited = 0
    /\ invoke_pc = "request"
    /\ invoke_result = Pending
    /\ active = {} /\ running = {} /\ triggered = {}

ProviderFrame ==
    UNCHANGED <<buildVars, state, runVars, turnVars, hostVars, ops, routed,
                fanVars, json_response, http, stepVars, sessionVars, workpad>>

\* an attempt that is tried again after any outcome but a well-formed one
Attempt_retry_any ==
    /\ invoke_pc = "request"
    /\ attempt_number' = attempt_number + 1
    /\ invoke_pc' =
         IF http[attempt_number + 1] # "ok_json"
              /\ attempt_number + 1 < stop_after_attempt
           THEN "wait" ELSE "respond"
    /\ UNCHANGED <<waited, invoke_result>>
    /\ ProviderFrame

\* one attempt of _make_request: requests.post, raise_for_status,
\* response.json(); after a RequestException the decorator sleeps and tries
\* again unless this was attempt stop_after_attempt
Attempt ==
    /\ invoke_pc = "request"
    /\ attempt_number' = attempt_number + 1
    /\ invoke_pc' =
         IF http[attempt_number + 1] \in RequestException
              /\ attempt_number + 1 < stop_after_attempt
           THEN "wait" ELSE "respond"
    /\ UNCHANGED <<waited, invoke_result>>
    /\ ProviderFrame

\* wait=wait_fixed(1)
Wait ==
    /\ invoke_pc = "wait"
    /\ waited' = waited + wait_fixed
    /\ invoke_pc' = "request"
    /\ UNCHANGED <<attempt_number, invoke_result>>
    /\ ProviderFrame

\* _make_request is over: invoke returns or raises
Respond ==
    /\ invoke_pc = "respond"
    /\ invoke_result' = invoke_outcome(http[attempt_number], json_response)
    /\ invoke_pc' =
         IF invoke_result'.exc = "none" THEN "returned" ELSE "raised"
    /\ UNCHANGED <<attempt_number, waited>>
    /\ ProviderFrame

NextProvider ==
    \/ Attempt
    \/ Wait
    \/ Respond

SpecProvider == InitProvider /\ [][NextProvider]_vars

\* every attempt and every sleep comes back: the call is never abandoned
\* half-way by its caller
FairSpecProvider == SpecProvider /\ WF_vars(NextProvider)


(***************************************************************************)
(* Properties.                                                             *)
(***************************************************************************)
\* the content of the planner's latest Result (when there is one)
LatestPlannerContent == Last(state[PLANNER]).page_content

\* the final_draft a State offers to a worker: the string under
\* step_4.final_draft of the planner's latest Result, "" when the planner
\* key is absent or empty or the content is not such an object
LatestDraft(st) ==
    IF PLANNER \in DOMAIN st /\ st[PLANNER] # <<>>
         /\ Last(st[PLANNER]).page_content.kind = "object"
         /\ Last(st[PLANNER]).page_content.s4 = "draft"
      THEN Last(st[PLANNER]).page_content.draft
      ELSE ""

\* a planner turn of the graph has completed and the planner's latest
\* Result is a well-formed Decision Artifact naming an agent of the roster
NamesRosterAgent ==
    /\ routed # NotRouted
    /\ WellFormed(LatestPlannerContent)
    /\ LatestPlannerContent.agentVal \in roster

C1_Routed ==
    NamesRosterAgent =>
        /\ routed = Returned(LatestPlannerContent.agentVal \o "_node")
        /\ node = LatestPlannerContent.agentVal \o "_node"

C1_Dispatched ==
    (NamesRosterAgent /\ step' = step + 1) =>
        lastNode' = LatestPlannerContent.agentVal

\* C1: after a planner turn whose latest Result is a well-formed Decision
\* Artifact naming roster agent X, the routing function gives X's node (not
\* END, not another node), and the node that runs next is X's.
C1_RoutingToNamedAgent == [](C1_Routed) /\ [][C1_Dispatched]_vars

\* C1 witness: the scraper's node has just run, named by the planner's
\* latest artifact
C1_Witness ==
    /\ pc = "body"
    /\ lastNode = "web_scraper_agent"
    /\ LatestPlannerContent.agentVal = "web_scraper_agent"

\* C2: whenever the planner's latest Result is anything but a Decision
\* Artifact naming a roster node, the routing function returns END and
\* does not raise.
C2_MalformedMeansEnd ==
    (/\ routed # NotRouted
     /\ ~(/\ LatestPlannerContent.kind = "object"
          /\ LatestPlannerContent.agentTag = "str"
          /\ LatestPlannerContent.agentVal \in roster))
      => routed = Returned(END)

\* C3: during a run every key stays and the sequence under it only grows at
\* its end: what was there stays at its position, content and producer.
C3_AppendOnly ==
    [][\A a \in DOMAIN state :
          a \in DOMAIN state' /\ IsPrefix(state[a], state'[a])]_vars

\* C3 witness: a run in which the planner has written twice and a worker
\* once
C3_Witness ==
    /\ built = "ok"
    /\ Len(state[PLANNER]) >= 2
    /\ \E a \in roster \cap ToolAgents : Len(state[a]) >= 1

\* the sequence under key a, the empty one when the key is absent
Under(st, a) == IF a \in DOMAIN st THEN st[a] ELSE <<>>

C4_Step ==
    ops' = ops + 1 =>
      LET a == lastNode'
      IN  /\ \A k \in DOMAIN state \ {a} :
                k \in DOMAIN state' /\ state'[k] = state[k]
          /\ DOMAIN state' \subseteq DOMAIN state \cup {a}
          /\ \/ state' = state
             \/ /\ a \in DOMAIN state'
                /\ Len(state'[a]) = Len(Under(state, a)) + 1
                /\ IsPrefix(Under(state, a), state'[a])
                /\ Last(state'[a]).agent = a
          /\ (lastRet' # "raise" /\ (a = PLANNER \/ LatestDraft(state) # ""))
                => /\ a \in DOMAIN state'
                   /\ Len(state'[a]) = Len(Under(state, a)) + 1

\* C4: one invoke changes State by at most one appended Result, under the
\* invoking agent's own key and with it as producer, and leaves every other
\* key as it was; with non-empty instructions and no exception it appends
\* exactly one.
C4_SingleWriter == [][C4_Step]_vars

\* C4 witness: a tool-calling agent without a key of its own has appended
\* its Result
C4_Witness ==
    /\ ops = 1
    /\ lastNode \in ToolAgents
    /\ lastRet = "state"
    /\ Len(state[lastNode]) = 1
    /\ Len(state[PLANNER]) = 1

C5_Step ==
    (/\ ops' = ops + 1
     /\ lastNode' \in ToolAgents \cup {REPORTER}
     /\ LatestDraft(state) = "")
      => /\ state' = state
         /\ ~llmCalled'
         /\ ~toolRan'
         /\ lastRet' = "empty"

\* C5: a worker or the reporter invoked on a State that offers no
\* instructions (planner key absent or empty, or an empty final_draft)
\* leaves State as it is, calls no provider, runs no tool and returns {}.
C5_NoOpWithoutInstructions == [][C5_Step]_vars

\* C5 witness: a tool-calling agent was invoked on a State without the
\* planner's key and returned {}
C5_Witness ==
    /\ ops >= 1
    /\ lastNode \in ToolAgents
    /\ lastRet = "empty"
    /\ PLANNER \notin DOMAIN state


\* what the claim expects for unit i: the error marker with the query's
\* text when the unit raised, the formatted result otherwise
Expected(i) ==
    IF outcomes[i] = "raises"
      THEN [kind |-> "error", query |-> queries[i]]
      ELSE format_search_results(queries[i], outcomes[i])

Occurrences(seq, e) == Cardinality({j \in 1..Len(seq) : seq[j] = e})

\* C6: whatever subset of a batch of N queries raises and in whatever order
\* the units complete, the result has exactly N entries, one per query: the
\* error marker with the query's text for a unit that raised, the
\* formatted result for any other.
C6_PartialFailureIsolation ==
    pc = "returned" =>
        /\ Len(combined_results) = Len(queries)
        /\ \A i \in Units :
               Occurrences(combined_results, Expected(i))
                 = Cardinality({j \in Units : Expected(j) = Expected(i)})

\* C6 witness: three queries, exactly one raised, and the entries are not
\* in the order of submission
C6_Witness ==
    /\ pc = "returned"
    /\ Len(queries) = 3
    /\ Cardinality({i \in Units : outcomes[i] = "raises"}) = 1
    /\ outcomes[3] = "raises"
    /\ outcomes[1] = "hits"
    /\ combined_results[1] = [kind |-> "error", query |-> queries[3]]

SentinelsPut ==
    Occurrences(progress_queue, Sentinel)
      + (IF hostpc \in {"final", "returned", "raised"} THEN 1 ELSE 0)

\* C7: under a planner that names a non-reporter worker on every turn the
\* run ends: never more than the step cap of node executions, and once the
\* host waits for the run the thread stops and the host receives the
\* sentinel (put exactly once).
C7_CapForcesTermination ==
    /\ [](step <= 50)
    /\ [](pc = "done" => SentinelsPut = 1)
    /\ (hostpc = "waiting") ~> (pc = "done" /\ hostpc = "final")

\* C7 witness: the cap ended the stream after 50 node executions and the
\* host has the sentinel
C7_Witness ==
    /\ exc = "GraphRecursionError"
    /\ step = 50
    /\ pc = "done"
    /\ hostpc = "final"

C8_Step ==
    (/\ ops' = ops + 1
     /\ lastNode' = REPORTER
     /\ LatestDraft(state) # "")
      => /\ state' =
               [k \in DOMAIN state \cup {REPORTER} |->
                   IF k = REPORTER
                     THEN Append(Under(state, REPORTER),
                                 Document(PlainText(LatestDraft(state)),
                                          REPORTER))
                     ELSE state[k]]
         /\ ~llmCalled'
         /\ lastRet' = "state"

\* C8: with a non-empty final_draft F in the planner's latest artifact the
\* reporter's invoke appends exactly one Result under its own key, whose
\* content is F itself, and calls no provider.
C8_ReporterRelaysVerbatim == [][C8_Step]_vars

\* C8 witness: the reporter has relayed the draft "d2"
C8_Witness ==
    /\ ops >= 1
    /\ lastNode = REPORTER
    /\ lastRet = "state"
    /\ LatestDraft(state) = "d2"
    /\ Last(state[REPORTER]).page_content.text = "d2"

\* C9: in every run that ends with the reporter executing, the message
\* run_workflow returns is the content of the last Result under the
\* reporter's key.
C9_FinalIsReportersLast ==
    (hostpc = "returned" /\ lastNode = REPORTER) =>
        /\ state[REPORTER] # <<>>
        /\ message = Last(state[REPORTER]).page_content.text

\* C9 amended: in every run that ends with the reporter executing and
\* appending a Result, the message run_workflow returns is the content of
\* the last Result under the reporter's key; when the reporter's turn was a
\* no-op (empty final_draft) nothing is under its key and the message is
\* the empty final_draft.
C9_FinalIsReportersAppended ==
    (hostpc = "returned" /\ lastNode = REPORTER) =>
        IF lastRet = "state"
          THEN /\ state[REPORTER] # <<>>
               /\ message = Last(state[REPORTER]).page_content.text
               /\ message = LatestDraft(state)
          ELSE /\ state[REPORTER] = <<>>
               /\ message = ""

\* C9 witness: a run ended with the reporter relaying "d1" and the host
\* got its message
C9_Witness ==
    /\ hostpc = "returned"
    /\ lastNode = REPORTER
    /\ lastRet = "state"
    /\ message = "d1"

\* C10: build_workflow fails, with no State and no graph, exactly on the
\* rosters that lack "meta_agent" or lack "reporter_agent"; on a roster
\* with both it succeeds, with a State keyed by the roster.
C10_RosterCheck ==
    /\ built = "ValueError" =>
          /\ ~("meta_agent" \in roster /\ "reporter_agent" \in roster)
          /\ state = EmptyState
          /\ node = "none"
          /\ hostpc = "idle"
    /\ built = "ok" =>
          /\ "meta_agent" \in roster /\ "reporter_agent" \in roster
          /\ DOMAIN state = roster
          /\ node # "none"

\* C10 witness: a roster with the planner but no reporter was rejected
C10_Witness ==
    /\ built = "ValueError"
    /\ "meta_agent" \in roster
    /\ "reporter_agent" \notin roster

C11_AfterNode ==
    /\ (pc = "body" /\ lastNode \in ToolAgents) => node = NodeName(PLANNER)
    /\ (pc = "body" /\ lastNode = REPORTER) => node = END

C11_NextStep ==
    step' = step + 1 =>
        /\ lastNode \in ToolAgents => lastNode' = PLANNER
        /\ lastNode # REPORTER

\* C11: whenever the node of a tool-calling worker has run to its end
\* (a no-op turn included) the node to run next is the planner's, and the
\* next node execution is the planner's; whenever the reporter's node has
\* run (a no-op turn included) the next node is END and no node runs after
\* it.  This holds for every State the node ran on.
C11_FixedSuccessor == [](C11_AfterNode) /\ [][C11_NextStep]_vars

\* C11 witness: the planner has run again after a worker's no-op turn
C11_Witness ==
    /\ step = 3
    /\ lastNode = PLANNER
    /\ Len(state[PLANNER]) = 2
    /\ state[PLANNER][1].page_content.agentVal \in roster \cap ToolAgents
    /\ state[PLANNER][1].page_content.s4 = "draft"
    /\ state[PLANNER][1].page_content.draft = ""
    /\ state[state[PLANNER][1].page_content.agentVal] = <<>>


C12_Step ==
    (ops' = ops + 1 /\ lastNode' \in ToolAgents \cup {REPORTER}) =>
        IF LatestDraft(state) = ""
          THEN state' = state /\ lastRet' = "empty"
          ELSE /\ lastRet' # "empty"
               /\ lastNode' = REPORTER =>
                     Last(state'[REPORTER]).page_content.text
                       = Last(state[PLANNER]).page_content.draft

\* C12: on every State read_instructions gives the final_draft of the last
\* Result under the planner's key, and "" when that key is absent or empty
\* or the last content is not an object with step_4.final_draft; a worker
\* or the reporter invoked on a State acts on exactly that value (a no-op
\* returning {} on "", the reporter relaying the last draft otherwise).
C12_ReadsLatestDraft ==
    /\ [](read_instructions(state) = LatestDraft(state))
    /\ [][C12_Step]_vars

\* C12 witness: with two planner Results of different drafts the reporter
\* has relayed the draft of the second
C12_Witness ==
    /\ ops = 2
    /\ lastNode = REPORTER
    /\ lastRet = "state"
    /\ PLANNER \in DOMAIN state
    /\ Len(state[PLANNER]) = 2
    /\ state[PLANNER][1].page_content.s4 = "draft"
    /\ state[PLANNER][1].page_content.draft = "d1"
    /\ state[PLANNER][2].page_content.draft = "d2"
    /\ Last(state[REPORTER]).page_content.text = "d2"


\* C13: however a run ends (reporter, unparseable or non-object planner
\* output, step cap, exception inside an agent), run_workflow returns a
\* message to the host, the final text or a placeholder, and never raises.
C13_HostAlwaysAnswered ==
    /\ hostpc # "raised"
    /\ (hostpc = "returned" /\ LatestDraft(state) = "")
          => message \in {NoFinalDraft, ""}


\* every attempt of the call failed with a transport error
AllAttemptsFailed ==
    /\ attempt_number = stop_after_attempt
    /\ \A i \in 1..stop_after_attempt : http[i] \in RequestException

\* C14: when every attempt of a provider call failed with a transport
\* error, invoke returns the JSON error envelope to its caller and raises
\* nothing.
C14_TransportFailureIsEnvelope ==
    (invoke_pc \in {"returned", "raised"} /\ AllAttemptsFailed)
        => invoke_result = ProviderReturns("error_envelope")


\* invoke of worker a on the current State when the provider's text for
\* the parameter request is not JSON
C15_OnNotJson(a, t) == ToolCallingAgent_invoke(state, a, "not_json", t)

C15_Function ==
    \A a \in ToolAgents, t \in ToolTexts :
        LatestDraft(state) # "" =>
            /\ C15_OnNotJson(a, t).ret = "raise"
            /\ C15_OnNotJson(a, t).exc = "ValueError"
            /\ C15_OnNotJson(a, t).llm
            /\ ~C15_OnNotJson(a, t).tool
            /\ C15_OnNotJson(a, t).state = state

C15_Step ==
    (ops' = ops + 1 /\ lastNode' \in ToolAgents /\ lastRet' = "raise")
        => state' = state

\* C15: when a worker has instructions and the provider's text for its
\* parameter request is not valid JSON, invoke raises ValueError to its
\* invoker without entering execute_tool and with State as it was; no
\* worker invoke that raises has appended anything.
C15_ParseFailureRaises == [](C15_Function) /\ [][C15_Step]_vars

\* C15 witness: a worker with instructions has raised ValueError after the
\* provider call and before any tool ran
C15_Witness ==
    /\ ops >= 1
    /\ lastNode \in ToolAgents
    /\ lastRet = "raise"
    /\ exc = "ValueError"
    /\ llmCalled
    /\ ~toolRan
    /\ LatestDraft(state) # ""
    /\ \A a \in DOMAIN state \ {PLANNER} : state[a] = <<>>


C16_Step ==
    (step' = step + 1 /\ lastNode = PLANNER) => lastNode' # PLANNER

\* C16: in every run the planner's node is never run directly after
\* itself: the node executed after a planner execution is a worker's or
\* the reporter's, whatever Agent value the planner emitted.
C16_PlannerNeverFollowsItself ==
    /\ [](routed # Returned(NodeName(PLANNER)))
    /\ [][C16_Step]_vars


C17_Step ==
    \A k \in DOMAIN state :
        /\ k \in DOMAIN state'
        /\ Len(state'[k]) >= Len(state[k])
        /\ \A i \in 1..Len(state[k]) : state'[k][i] = state[k][i]

\* C17: under every sequence of register, write_to_state and invoke calls
\* on one State, a key once there stays and the sequence under it keeps
\* every element at its place; it changes only by gaining elements at its
\* end.
C17_KeysOnlyGrow == [][C17_Step]_vars


\* the put of a step, when the step made one
C18_Put == Last(progress_queue')

C18_Step ==
    /\ pc = "done" => Len(progress_queue') <= Len(progress_queue)
    /\ (pc # "done" /\ pc' = "done") =>
          Len(progress_queue') = Len(progress_queue) + 1
    /\ Len(progress_queue') > Len(progress_queue) =>
          /\ progress_queue' = Append(progress_queue, C18_Put)
          /\ IF pc' = "done"
               THEN C18_Put = Sentinel
               ELSE /\ C18_Put # Sentinel
                    /\ C18_Put \notin seen_progress_messages
                    /\ seen_progress_messages' =
                           seen_progress_messages \cup {C18_Put}

C18_Queue ==
    /\ \A i, j \in 1..Len(progress_queue) :
           i # j => progress_queue[i] # progress_queue[j]
    /\ \A i \in 1..Len(progress_queue) :
           progress_queue[i] = Sentinel => i = Len(progress_queue)
    /\ SentinelsPut = (IF pc = "done" THEN 1 ELSE 0)

\* C18: in every run, those ended by an exception of an agent or by the
\* step cap included, the workflow thread puts notifications none of which
\* it has put before, then exactly one sentinel when its loop ends, and
\* nothing after the sentinel.
C18_ProgressStreamShape == [](C18_Queue) /\ [][C18_Step]_vars

\* C18 witness: the step cap ended a run of 50 node executions, and the
\* queue holds the one notification of those 50 events and the sentinel
C18_Witness ==
    /\ pc = "done"
    /\ step = RecursionLimit
    /\ hostpc = "waiting"
    /\ Len(progress_queue) = 2
    /\ progress_queue[1] \in seen_progress_messages
    /\ progress_queue[2] = Sentinel


C19_OneAtATime ==
    /\ Cardinality(running) <= 1
    /\ running # {} => active = {}
    /\ Cardinality(active) <= 1

C19_Step ==
    /\ state' # state =>
          /\ running = {lastNode'}
          /\ running' = {}
    /\ running' \ running # {} => running = {}

\* C19: during a run at most one agent invoke is in progress at any time:
\* an invoke starts only when no other is in progress, and State changes
\* only at the end of the one invoke in progress.
C19_TurnsNeverOverlap == [](C19_OneAtATime) /\ [][C19_Step]_vars

\* C19 witness: a worker's invoke is in progress after the planner's has
\* written, and nothing else is started or waiting to start
C19_Witness ==
    /\ pc = "engine"
    /\ running \subseteq ToolAgents
    /\ running # {}
    /\ lastNode = PLANNER
    /\ Len(state[PLANNER]) = 1
    /\ active = {}


\* what run_workflow returns for a run that ended by a decision of the
\* planner: the final_draft of its last artifact, or the placeholder
NormalMessages == Drafts \cup {NoFinalDraft}

\* C20: a run aborted by the step cap ends, for the caller, in a failure
\* that differs from the outcome of a run ended by the planner: either
\* run_workflow raises, or what it returns is not a message a normally
\* ended run returns.
C20_CapAbortIsDistinct ==
    (exc = "GraphRecursionError" /\ hostpc \in {"returned", "raised"})
        => \/ hostpc = "raised"
           \/ message \notin NormalMessages


\* C21: while a worker executes a batch of any size, never more than 5 of
\* its units are running at once, and every unit of a non-empty batch is
\* eventually started.
C21_BoundedFanout ==
    /\ [](Cardinality(Running) <= 5)
    /\ (pc = "fanout" /\ queries # <<>>)
          ~> (\A i \in Units : fut[i] # "queued")

\* C21 witness: a batch of more than 5 units with 5 running and a unit
\* still waiting for a thread
C21_Witness ==
    /\ pc = "fanout"
    /\ Len(queries) > max_workers
    /\ Cardinality(Running) = max_workers
    /\ \E i \in Units : fut[i] = "queued"


C22_Written ==
    pc = "written" =>
        /\ \A i \in Units : fut[i] = "done"
        /\ yielded = Units
        /\ Len(state[worker]) = 1

C22_NoAbort ==
    /\ (pc = "raised") => queries = <<>>
    /\ (pc \in {"returned", "raised"}) => state[worker] = <<>>

C22_Step ==
    state' # state =>
        /\ pc = "returned" /\ pc' = "written"
        /\ \A i \in Units : fut[i] = "done"
        /\ state' = write_to_state(state, worker, ToolResult)
        /\ Len(state'[worker]) = Len(state[worker]) + 1

\* C22: in a worker turn with N units State is written only after all N
\* units have finished and been collected; a unit that fails neither ends
\* the turn nor keeps a sibling from running; and the turn writes exactly
\* once.
C22_FanInBeforeWrite ==
    [](C22_Written) /\ [](C22_NoAbort) /\ [][C22_Step]_vars

\* C22 witness: a turn of three units, one of which raised and one of which
\* succeeded, has written its one Result
C22_Witness ==
    /\ pc = "written"
    /\ Len(queries) = 3
    /\ outcomes[1] = "raises"
    /\ outcomes[2] = "hits"
    /\ Len(state[worker]) = 1


\* the urls of the batch
RequestedUrls == {queries[i] : i \in Units}

\* C23: whatever the order in which the units complete, the structure the
\* scrape worker returns has exactly one entry per distinct requested url
\* and holds, under each unit's url, the outcome of that unit.
C23_MappingSurvivesOrder ==
    (pc = "returned" /\ worker = "web_scraper_agent") =>
        /\ {e[1] : e \in scrape_results_str} = RequestedUrls
        /\ Cardinality(scrape_results_str) = Cardinality(RequestedUrls)
        /\ \A i \in Units : Scraped(i) \in scrape_results_str


\* the entries of the aggregated payload
PayloadEntries == {combined_results[j] : j \in 1..Len(combined_results)}

\* C24: in the payload the search worker returns, every unit whose search
\* failed, by raising or by the tool's {error} response, appears as the
\* error marker of its query.
C24_FailedUnitsVisible ==
    (pc = "returned" /\ worker = "serper_agent") =>
        \A i \in Units :
            outcomes[i] \in {"raises", "error_response"}
                => error_message(queries[i]) \in PayloadEntries


\* the Results of the planner found in a workpad
C25_PlannerResultsIn(w) ==
    {<<k, i>> \in (DOMAIN w.entries) \X (1..MaxSteps) :
        i <= Len(w.entries[k]) /\ w.entries[k][i].agent = PLANNER}

C25_Step ==
    (step' = step + 1 /\ lastNode' = PLANNER) =>
        /\ DOMAIN workpad'.entries = DOMAIN state \ {PLANNER}
        /\ \A k \in DOMAIN state \ {PLANNER} : workpad'.entries[k] = state[k]
        /\ C25_PlannerResultsIn(workpad') = {}

IsDecisionArtifact(c) ==
    /\ c.kind = "object"
    /\ c.agentTag # "absent"
    /\ c.s4 # "absent"

\* C26: every Result under the planner's key deserializes to an object
\* with the required members of a Decision Artifact, also when the
\* provider call of that turn failed.
C26_PlannerResultsAreArtifacts ==
    \A i \in 1..Len(Under(state, PLANNER)) :
        IsDecisionArtifact(state[PLANNER][i].page_content)


\* C27: in every reachable State every Result under key k names k as its
\* producer: no operation of an agent files a Result under another key.
C27_ProducerMatchesKey ==
    \A k \in DOMAIN state :
        \A i \in 1..Len(state[k]) : state[k][i].agent = k

\* C27 witness: the planner, a worker and the reporter have all written in
\* one run
C27_Witness ==
    /\ built = "ok"
    /\ Len(state[PLANNER]) = 2
    /\ Len(state[REPORTER]) = 1
    /\ \E a \in roster \cap ToolAgents : Len(state[a]) = 1


\* C28: one provider call makes at most stop_after_attempt (3) request
\* attempts, sleeps wait_fixed between consecutive attempts, makes a
\* further attempt only after a RequestException, and always ends by
\* returning or raising.
C28_BoundedRetries ==
    /\ [](/\ attempt_number <= stop_after_attempt
          /\ waited = wait_fixed *
                (IF invoke_pc = "request" \/ attempt_number = 0
                   THEN attempt_number ELSE attempt_number - 1))
    /\ [][(attempt_number' = attempt_number + 1 /\ attempt_number >= 1)
             => http[attempt_number] \in RequestException]_vars
    /\ [][(invoke_pc \in {"returned", "raised"})
             => (attempt_number' = attempt_number)]_vars
    /\ <>(invoke_pc \in {"returned", "raised"})

\* C28 witness: two transport failures, two sleeps, and the third attempt
\* ends the call with a value
C28_Witness ==
    /\ invoke_pc = "returned"
    /\ attempt_number = stop_after_attempt
    /\ waited = 2 * wait_fixed
    /\ http[1] \in RequestException
    /\ http[2] \in RequestException


\* the number of agents of the list that bear a name
Named(team, a) == Cardinality({i \in 1..Len(team) : team[i] = a})

C30_MessageEventNeverFails ==
    hostpc = "returned" => event \in {"none", "handled"}


\* the URLs a corpus has a Document of
Sources(c) == {c[i].source : i \in 1..Len(c)}

\* C31: whatever the lengths of urls and query, the corpus run_rag builds
\* holds an outcome (content, or a timeout or error Document) of the unit
\* of every element of urls.
C31_CorpusCoversEveryUrl ==
    pc = "corpus" => \A i \in 1..Len(urls) : urls[i] \in Sources(corpus)


\* C32: from the return of build_workflow to the end of the run the keys of
\* State are exactly the names of the roster; build_workflow returns every
\* key with the empty sequence; no step of the run changes the key set.
C32_KeysEqualRoster ==
    /\ [](built = "ok" => DOMAIN state = roster)
    /\ [][(built # "ok" /\ built' = "ok")
            => \A k \in roster' : state'[k] = <<>>]_vars
    /\ [][built = "ok" => DOMAIN state' = DOMAIN state]_vars

\* C32 witness: the run of a roster with a worker is over, the worker and
\* the planner have written, and the host has its message
C32_Witness ==
    /\ built = "ok"
    /\ hostpc = "returned"
    /\ DOMAIN state = roster
    /\ Cardinality(roster) >= 3
    /\ state[PLANNER] # <<>>
    /\ \E a \in roster \cap ToolAgents : state[a] # <<>>


\* C33: after any sequence of build_workflow calls, the AgentRegistry shown
\* to the planner holds exactly the non-planner agents of the roster built
\* last.
C33_RegistryMatchesRoster ==
    built = "ok" => AgentRegistry = roster \ {PLANNER}

\* C34: a call of build_workflow that fails the roster check leaves the
\* AgentRegistry as it was and creates no State: what earlier calls left
\* is untouched.
C34_RejectedRosterNoEffect ==
    [][(ops' = ops + 1 /\ built' = "ValueError")
         => (AgentRegistry' = AgentRegistry /\ state' = state)]_vars

\* C34 witness: a roster with a worker but no reporter has been rejected
\* after an earlier successful build; registry and State are those of the
\* earlier build
C34_Witness ==
    /\ ops = 2
    /\ built = "ValueError"
    /\ roster \cap ToolAgents # {}
    /\ AgentRegistry = {REPORTER}
    /\ DOMAIN state = {PLANNER, REPORTER}


\* a node execution: the step counter advances
C35_Step ==
    step' = step + 1 =>
        /\ step = 0 => lastNode' = PLANNER
        /\ lastNode' # PLANNER =>
              /\ lastNode = PLANNER
              /\ state[PLANNER] # <<>>
              /\ Last(state[PLANNER]).page_content.kind = "object"
              /\ Last(state[PLANNER]).page_content.agentTag = "str"
              /\ Last(state[PLANNER]).page_content.agentVal = lastNode'

\* C35: in every run the first node executed is the planner's, and every
\* execution of a worker's or the reporter's node comes directly after a
\* planner execution whose latest Result names exactly that agent.
C35_WorkersRunOnlyWhenNamed == [][C35_Step]_vars

\* C35 witness: a worker and then the reporter have run, each after a
\* planner turn
C35_Witness ==
    /\ step = 4
    /\ lastNode = REPORTER
    /\ Len(state[PLANNER]) = 2
    /\ state[PLANNER][1].page_content.agentVal \in roster \cap ToolAgents
    /\ state[PLANNER][2].page_content.agentVal = REPORTER


\* C36: run_workflow reads State for the final message only after it has
\* taken the sentinel, the sentinel is in the queue only when the workflow
\* thread has left its loop, and from then on nothing writes to State: under
\* every interleaving of host and thread the final read sees the State the
\* run ended with.
C36_NoReadOfHalfFinishedRun ==
    /\ [](hostpc \in {"final", "returned", "raised"} => pc = "done")
    /\ [](Occurrences(progress_queue, Sentinel) > 0 => pc = "done")
    /\ [][pc = "done" => (state' = state /\ pc' = "done")]_vars

\* C36 witness: the host has read the final message of a run of four node
\* executions that the reporter ended
C36_Witness ==
    /\ hostpc = "returned"
    /\ pc = "done"
    /\ step = 4
    /\ Len(state[REPORTER]) = 1
    /\ message = Last(state[REPORTER]).page_content.text


\* C37: a worker turn whose parameter object has no work-unit list, or an
\* empty one, raises ValueError out of invoke; no unit is submitted or
\* started and nothing is appended to State.
C37_EmptyBatchAborts ==
    /\ [](queries = <<>> =>
            /\ pc \in {"fanout", "raised"}
            /\ fut = <<>>
            /\ yielded = {}
            /\ state = TurnState(worker, "d1"))
    /\ [][(queries = <<>> /\ pc = "fanout")
            => (pc' = "raised" /\ exc' = "ValueError" /\ state' = state)]_vars

\* C37 witness: the scrape worker's turn on an empty batch has raised
C37_Witness ==
    /\ worker = "web_scraper_agent"
    /\ queries = <<>>
    /\ pc = "raised"
    /\ exc = "ValueError"
    /\ state[worker] = <<>>


====
